---------------------------- MODULE Spec2Model ----------------------------
(***************************************************************************)
(* A model of the SDR Finder component (src/src/App.jsx): the React state  *)
(* of App, its event handlers (handleFileUpload, the FileReader's onload,  *)
(* handleSearchChange, clearSearch, resetApp), the loading of the parsing  *)
(* library, and the pure transformations the handlers apply (the header    *)
(* clean-up and row projection of reader.onload, the de-duplicating query  *)
(* of handleSearchChange).                                                 *)
(*                                                                         *)
(* JavaScript strings are sequences of one-character strings, so that      *)
(* toLowerCase, trim, includes and endsWith are computed, not assumed.     *)
(* A cell value is a tagged record: a string or a (non-negative integer)   *)
(* number; a blank cell is an absent key, as sheet_to_json leaves it.      *)
(***************************************************************************)
EXTENDS Integers, Sequences, FiniteSets, TLC

(***************************************************************************)
(* Bounds of the model.                                                    *)
(***************************************************************************)
\* the number of FileReaders (upload attempts) one behaviour creates
MaxReads == 2
\* the number of rows of a parsed sheet in EngineSpec
MaxRows == 3

(***************************************************************************)
(* JavaScript strings.                                                     *)
(***************************************************************************)
UpperCaseChars ==
  <<"A", "B", "C", "D", "E", "F", "G", "H", "I", "J", "K", "L", "M",
    "N", "O", "P", "Q", "R", "S", "T", "U", "V", "W", "X", "Y", "Z">>

LowerCaseChars ==
  <<"a", "b", "c", "d", "e", "f", "g", "h", "i", "j", "k", "l", "m",
    "n", "o", "p", "q", "r", "s", "t", "u", "v", "w", "x", "y", "z">>

WhiteSpaceChars == {" ", "\t"}

\* String.prototype.toLowerCase on one character
toLowerCaseChar(c) ==
  IF \E i \in DOMAIN UpperCaseChars : UpperCaseChars[i] = c
  THEN LowerCaseChars[CHOOSE i \in DOMAIN UpperCaseChars : UpperCaseChars[i] = c]
  ELSE c

\* String.prototype.toLowerCase
toLowerCase(s) == [i \in 1..Len(s) |-> toLowerCaseChar(s[i])]

\* String.prototype.includes
includes(s, t) ==
  \E k \in 0..(Len(s) - Len(t)) : SubSeq(s, k + 1, k + Len(t)) = t

\* String.prototype.endsWith
endsWith(s, t) ==
  /\ Len(t) <= Len(s)
  /\ SubSeq(s, Len(s) - Len(t) + 1, Len(s)) = t

RECURSIVE trimStart(_)
trimStart(s) ==
  IF s # <<>> /\ Head(s) \in WhiteSpaceChars THEN trimStart(Tail(s)) ELSE s

RECURSIVE trimEnd(_)
trimEnd(s) ==
  IF s # <<>> /\ s[Len(s)] \in WhiteSpaceChars
  THEN trimEnd(SubSeq(s, 1, Len(s) - 1))
  ELSE s

\* String.prototype.trim
trim(s) == trimEnd(trimStart(s))

(***************************************************************************)
(* JavaScript values of a cell: a string or a number.                      *)
(***************************************************************************)
Str(s) == [kind |-> "string", val |-> s]
Num(n) == [kind |-> "number", val |-> n]

DigitChars == <<"0", "1", "2", "3", "4", "5", "6", "7", "8", "9">>

\* Number.prototype.toString for a non-negative integer
RECURSIVE NumberToString(_)
NumberToString(n) ==
  IF n < 10 THEN <<DigitChars[n + 1]>>
  ELSE Append(NumberToString(n \div 10), DigitChars[(n % 10) + 1])

\* the value read from an absent property
Undefined == [kind |-> "undefined"]

UNDEFINED_chars == <<"u", "n", "d", "e", "f", "i", "n", "e", "d">>

\* String(v)
String(v) ==
  IF v.kind = "string" THEN v.val
  ELSE IF v.kind = "number" THEN NumberToString(v.val)
  ELSE UNDEFINED_chars

\* the truthiness of a value: '', 0 and undefined are falsy
Truthy(v) ==
  IF v.kind = "string" THEN v.val # <<>>
  ELSE IF v.kind = "number" THEN v.val # 0
  ELSE FALSE

(***************************************************************************)
(* Objects with string keys (a parsed row, a projected row).  A parsed row *)
(* is the sequence of its <<header, value>> pairs in the order for..in     *)
(* visits them; a projected row is a function from its keys to values.     *)
(***************************************************************************)
KEY_salesLevel6 == <<"s", "a", "l", "e", "s", "L", "e", "v", "e", "l", "6">>
KEY_sdrName == <<"s", "d", "r", "N", "a", "m", "e">>
NEEDLE_salesLevel6 == <<"s", "a", "l", "e", "s", " ", "l", "e", "v", "e", "l", " ", "6">>
NEEDLE_sdr == <<"s", "d", "r">>
EXT_csv == <<".", "c", "s", "v">>

EmptyObject == [k \in {} |-> Str(<<>>)]

\* SetProperty leaving a property that exists as it is
SetProperty_KeepsFirst(obj, key, value) ==
  IF key \in DOMAIN obj THEN obj
  ELSE [k \in (DOMAIN obj) \cup {key} |-> IF k = key THEN value ELSE obj[k]]

\* SetProperty storing String(value)
SetProperty_AsString(obj, key, value) ==
  [k \in (DOMAIN obj) \cup {key} |-> IF k = key THEN Str(String(value)) ELSE obj[k]]

\* obj[key] = value
SetProperty(obj, key, value) ==
  [k \in (DOMAIN obj) \cup {key} |-> IF k = key THEN value ELSE obj[k]]

HasProperty(obj, key) == key \in DOMAIN obj

\* obj[key]
GetProperty(obj, key) == IF HasProperty(obj, key) THEN obj[key] ELSE Undefined

\* the key under which the loop body of reader.onload stores row[key]
\* TargetKey without toLowerCase()
TargetKey_NoLowerCase(key) ==
  LET cleanedKey == trim(key)
  IN  IF includes(cleanedKey, NEEDLE_salesLevel6) THEN KEY_salesLevel6
      ELSE IF includes(cleanedKey, NEEDLE_sdr) THEN KEY_sdrName
      ELSE cleanedKey

\* TargetKey testing 'sdr' before 'sales level 6'
TargetKey_OwnerFirst(key) ==
  LET cleanedKey == toLowerCase(trim(key))
  IN  IF includes(cleanedKey, NEEDLE_sdr) THEN KEY_sdrName
      ELSE IF includes(cleanedKey, NEEDLE_salesLevel6) THEN KEY_salesLevel6
      ELSE cleanedKey

TargetKey(key) ==
  LET cleanedKey == toLowerCase(trim(key))
  IN  IF includes(cleanedKey, NEEDLE_salesLevel6) THEN KEY_salesLevel6
      ELSE IF includes(cleanedKey, NEEDLE_sdr) THEN KEY_sdrName
      ELSE cleanedKey

\* the for..in loop over one parsed row, building newRow
RECURSIVE ProjectPairs(_, _)
ProjectPairs(pairs, newRow) ==
  IF pairs = <<>> THEN newRow
  ELSE ProjectPairs(Tail(pairs),
                    SetProperty(newRow, TargetKey(Head(pairs)[1]), Head(pairs)[2]))

\* json.map's callback
ProjectRow(row) == ProjectPairs(row, EmptyObject)

\* KeepRow testing the territory key alone
KeepRow_KeyOnly(newRow) == Truthy(GetProperty(newRow, KEY_salesLevel6))

\* the predicate of .filter(row => row.salesLevel6 && row.sdrName)
KeepRow(newRow) ==
  Truthy(GetProperty(newRow, KEY_salesLevel6)) /\ Truthy(GetProperty(newRow, KEY_sdrName))

RECURSIVE FilterRows(_)
FilterRows(rows) ==
  IF rows = <<>> THEN <<>>
  ELSE IF KeepRow(Head(rows)) THEN <<Head(rows)>> \o FilterRows(Tail(rows))
  ELSE FilterRows(Tail(rows))

\* processedData = json.map(...).filter(...)
ProcessedData(json) == FilterRows([i \in 1..Len(json) |-> ProjectRow(json[i])])

(***************************************************************************)
(* The query of handleSearchChange.  uniqueResultsMap is a Map: the        *)
(* sequence of its <<key, value>> entries in insertion order.              *)
(***************************************************************************)
MapHas(map, key) == \E i \in 1..Len(map) : map[i][1] = key

\* MapSet putting a new key in front of the others
MapSet_InFront(map, key, value) ==
  IF MapHas(map, key)
    THEN [i \in 1..Len(map) |-> IF map[i][1] = key THEN <<key, value>> ELSE map[i]]
    ELSE <<<<key, value>>>> \o map

\* uniqueResultsMap.set(key, value) for a key the map may hold already
MapSet(map, key, value) ==
  IF MapHas(map, key)
  THEN [i \in 1..Len(map) |-> IF map[i][1] = key THEN <<key, value>> ELSE map[i]]
  ELSE Append(map, <<key, value>>)

MapValues(map) == [i \in 1..Len(map) |-> map[i][2]]

\* RowMatches comparing the lowercased key with the term as typed
RowMatches_TermAsTyped(row, term) ==
  /\ Truthy(GetProperty(row, KEY_salesLevel6))
  /\ includes(toLowerCase(String(GetProperty(row, KEY_salesLevel6))), term)

\* the condition of the if in the forEach callback
RowMatches(row, term) ==
  /\ Truthy(GetProperty(row, KEY_salesLevel6))
  /\ includes(toLowerCase(String(GetProperty(row, KEY_salesLevel6))), toLowerCase(term))

\* the result object stored for a row
ResultOf(row) ==
  [salesLevel6 |-> GetProperty(row, KEY_salesLevel6),
   sdrName |-> GetProperty(row, KEY_sdrName)]

\* VisitRow without the has() test: the last row of a key wins
VisitRow_LastWins(map, row, term) ==
  IF RowMatches(row, term)
  THEN MapSet(map, toLowerCase(String(GetProperty(row, KEY_salesLevel6))), ResultOf(row))
  ELSE map

\* the body of the forEach callback
VisitRow(map, row, term) ==
  IF RowMatches(row, term)
  THEN LET salesLevel6Key == toLowerCase(String(GetProperty(row, KEY_salesLevel6)))
       IN  IF ~MapHas(map, salesLevel6Key)
           THEN MapSet(map, salesLevel6Key, ResultOf(row))
           ELSE map
  ELSE map

RECURSIVE ForEachRow(_, _, _)
ForEachRow(data, term, map) ==
  IF data = <<>> THEN map
  ELSE ForEachRow(Tail(data), term, VisitRow(map, Head(data), term))

\* results = Array.from(uniqueResultsMap.values())
UniqueResults(data, term) == MapValues(ForEachRow(data, term, <<>>))

(***************************************************************************)
(* The inputs of the model: headers, cell values, query terms and files.   *)
(***************************************************************************)
H_SalesLevel6 == <<"S", "a", "l", "e", "s", " ", "L", "e", "v", "e", "l", " ", "6">>
H_SdrName == <<"S", "D", "R", " ", "N", "a", "m", "e">>
H_Sdr == <<"S", "D", "R">>
H_sdr_padded == <<" ", "s", "d", "r", " ">>
H_Region == <<"R", "e", "g", "i", "o", "n">>
H_Owner == <<"O", "w", "n", "e", "r">>

V_West1 == Str(<<"W", "e", "s", "t", "-", "1">>)
V_west1 == Str(<<"w", "e", "s", "t", "-", "1">>)
V_East9 == Str(<<"E", "a", "s", "t", "-", "9">>)
V_Alice == Str(<<"A", "l", "i", "c", "e">>)
V_Bob == Str(<<"B", "o", "b">>)
V_Carol == Str(<<"C", "a", "r", "o", "l">>)
V_Dan == Str(<<"D", "a", "n">>)

T_west == <<"w", "e", "s", "t">>
T_E == <<"E">>
T_zzz == <<"z", "z", "z">>
T_1 == <<"1">>

\* the query strings typed into the search input, in Spec
Terms == {<<>>, T_E}

\* the query strings typed into the search input, in EngineSpec
EngineTerms == {<<>>, T_west, T_E, T_zzz, T_1}

\* the rows of Scenario A: two rows share the key west-1 up to case
RowsA ==
  << <<<<H_SalesLevel6, V_West1>>, <<H_SdrName, V_Alice>>>>,
     <<<<H_SalesLevel6, V_west1>>, <<H_SdrName, V_Bob>>>>,
     <<<<H_SalesLevel6, V_East9>>, <<H_Sdr, V_Carol>>>> >>

\* a sheet with a numeric key, a row without owner and a passthrough column
RowsB ==
  << <<<<H_Region, V_West1>>, <<H_SalesLevel6, Num(1)>>, <<H_sdr_padded, V_Dan>>>>,
     <<<<H_SalesLevel6, V_East9>>>>,
     <<<<H_SalesLevel6, V_East9>>, <<H_Sdr, V_Bob>>>> >>

\* the row of Scenario B: no header matches
RowsNoMatch == << <<<<H_Region, V_West1>>, <<H_Owner, V_Alice>>>> >>

\* a File: its name, whether XLSX.read / sheet_to_json throw on its content,
\* and the rows sheet_to_json returns when they do not
File(name, throws, json) == [name |-> name, throws |-> throws, json |-> json]

FileA == File(<<"a", ".", "c", "s", "v">>, FALSE, RowsA)
FileB == File(<<"b", ".", "x", "l", "s", "x">>, FALSE, RowsB)
FileNoMatch == File(<<"c", ".", "X", "L", "S">>, FALSE, RowsNoMatch)
FileCorrupt == File(<<"D", ".", "C", "S", "V">>, TRUE, <<>>)

Files == {FileA, FileB, FileNoMatch, FileCorrupt}

\* the rows a parsed sheet of EngineSpec is made of: keys equal up to case, a
\* numeric key and the string of its digits, a falsy owner, a passthrough column
RowChoices ==
  { <<<<H_SalesLevel6, V_West1>>, <<H_SdrName, V_Alice>>>>,
    <<<<H_SalesLevel6, V_west1>>, <<H_SdrName, V_Bob>>>>,
    <<<<H_SalesLevel6, V_East9>>, <<H_Sdr, V_Carol>>>>,
    <<<<H_Region, V_West1>>, <<H_SalesLevel6, Num(1)>>, <<H_sdr_padded, V_Dan>>>>,
    <<<<H_SalesLevel6, Str(T_1)>>, <<H_Sdr, V_Bob>>>>,
    <<<<H_SalesLevel6, V_East9>>, <<H_Sdr, Num(0)>>>> }

\* the sheets of at most MaxRows rows
Sheets == UNION {[1..n -> RowChoices] : n \in 0..MaxRows}

EngineFiles ==
  {File(<<"e", ".", "c", "s", "v">>, FALSE, json) : json \in Sheets} \cup {FileCorrupt}

\* headers of HeaderSpec: lower case, holding both substrings
H_sales_level_6 == <<"s", "a", "l", "e", "s", " ", "l", "e", "v", "e", "l", " ", "6">>
H_Both == <<"S", "D", "R", " ", "S", "a", "l", "e", "s", " ", "L", "e", "v", "e", "l", " ", "6">>

\* the headers of the probed column of HeaderSpec: either substring in either
\* case, both substrings, neither, and the two field names the projection writes
HeaderChoices ==
  {H_SalesLevel6, H_SdrName, H_Sdr, H_Both, H_Region, H_Owner,
   KEY_salesLevel6, KEY_sdrName}

\* the rows of HeaderSpec: a column under the header h in each position among
\* a territory column and an owner column, or beside one of them alone
HeaderRows(h) ==
  LET S == <<H_sales_level_6, V_West1>>
      O == <<H_sdr_padded, V_Alice>>
      P == <<h, V_Dan>>
  IN  { <<S, O, P>>, <<S, P, O>>, <<P, S, O>>, <<S, P>>, <<P, O>> }

\* a row that already has the fields of a projected row
RowCanonical == <<<<KEY_salesLevel6, V_West1>>, <<KEY_sdrName, V_Alice>>>>

HeaderFiles ==
  {File(<<"h", ".", "c", "s", "v">>, FALSE, <<row>>) :
     row \in {RowCanonical} \cup UNION {HeaderRows(h) : h \in HeaderChoices}}

\* event.target.files of a change event: no file, or one file
FileLists == {<<>>} \cup {<<f>> : f \in Files}

(***************************************************************************)
(* The messages of setMessage.                                             *)
(***************************************************************************)
MSG_LoadingLibrary == <<"Loading Excel parsing library...">>
MSG_UploadToStart == <<"Upload an Excel or CSV file to get started.">>
MSG_LibraryFailed == <<"Failed to load Excel parsing library.">>
MSG_SelectFile == <<"Please select an Excel or CSV file to upload.">>
MSG_StillLoading == <<"Excel parsing library is still loading.">>
MSG_Loaded(n, name) == <<"Successfully loaded", n, name>>
MSG_NoValidData == <<"No valid Sales Level 6 or SDR Name data found in the file.">>
MSG_FailedToRead == <<"Failed to read file.">>
MSG_NoMatch == <<"No matching Sales Level 6 found.">>
MSG_None == <<"">>
MSG_StartTyping == <<"Start typing in the search bar to find SDRs by Sales Level 6.">>
MSG_UploadFirst == <<"Please upload a file first to search.">>
MSG_SearchCleared == <<"Search cleared.">>
MSG_AppReset == <<"App reset. Upload an Excel or CSV file to get started.">>

(***************************************************************************)
(* The state.                                                              *)
(***************************************************************************)
VARIABLES
  excelData,        \* useState([]): the stored record set
  searchTerm,       \* useState(''): the query string
  filteredResults,  \* useState([]): the displayed results
  message,          \* useState('Loading Excel parsing library...')
  fileSelected,     \* useState(false)
  isXLSXLoaded,     \* useState(false)
  fileInputValue,   \* fileInputRef.current.value: the name shown, or ''
  script,           \* the library (window.XLSX): "loading", "loaded", "error"
  readers,          \* the FileReaders created, in order: [file, readAs, readyState]
  lastEvent,        \* history: the handler that ran last, with its argument
                    \* (and, for handleFileUpload, onload and resetApp,
                    \* excelData.length before it)
  afterReset,       \* history: resetApp ran and no change event came since
  lastDone          \* history: the reader whose onload ran last (0: none)

vars == <<excelData, searchTerm, filteredResults, message, fileSelected,
          isXLSXLoaded, fileInputValue, script, readers, lastEvent,
          afterReset, lastDone>>

appState == <<excelData, searchTerm, filteredResults, message, fileSelected,
              isXLSXLoaded, fileInputValue>>

\* the state after the first render and its effect: window.XLSX is there
\* already (no <script> is made), or the <script> of the library is loading
Init ==
  /\ excelData = <<>>
  /\ searchTerm = <<>>
  /\ filteredResults = <<>>
  /\ fileSelected = FALSE
  /\ fileInputValue = <<>>
  /\ readers = <<>>
  /\ \/ isXLSXLoaded = TRUE /\ message = MSG_UploadToStart /\ script = "loaded"
     \/ isXLSXLoaded = FALSE /\ message = MSG_LoadingLibrary /\ script = "loading"
  /\ lastEvent = [op |-> "mount"]
  /\ afterReset = FALSE
  /\ lastDone = 0

(***************************************************************************)
(* The loading of the parsing library (the effect's <script>).             *)
(***************************************************************************)
ScriptOnload ==
  /\ script = "loading"
  /\ script' = "loaded"
  /\ isXLSXLoaded' = TRUE
  /\ message' = MSG_UploadToStart
  /\ lastEvent' = [op |-> "script.onload"]
  /\ UNCHANGED <<excelData, searchTerm, filteredResults, fileSelected,
                 fileInputValue, readers, afterReset, lastDone>>

ScriptOnerror ==
  /\ script = "loading"
  /\ script' = "error"
  /\ message' = MSG_LibraryFailed
  /\ lastEvent' = [op |-> "script.onerror"]
  /\ UNCHANGED <<excelData, searchTerm, filteredResults, fileSelected, isXLSXLoaded,
                 fileInputValue, readers, afterReset, lastDone>>

(***************************************************************************)
(* handleFileUpload: the change event of the file input.                   *)
(***************************************************************************)
\* reader.readAsText for a .csv name, reader.readAsArrayBuffer otherwise
ReadMethod(file) ==
  IF endsWith(toLowerCase(file.name), EXT_csv) THEN "readAsText" ELSE "readAsArrayBuffer"

NewReader(file) ==
  [file |-> file, method |-> ReadMethod(file), readyState |-> "LOADING", error |-> FALSE]

\* UploadNoFile without setFilteredResults([])
UploadNoFile_KeepsResults ==
  /\ fileSelected' = FALSE
  /\ message' = MSG_SelectFile
  /\ excelData' = <<>>
  /\ fileInputValue' = <<>>
  /\ UNCHANGED <<searchTerm, filteredResults, isXLSXLoaded, script, readers, lastDone>>

\* if (!file) { ... return; }
UploadNoFile ==
  /\ fileSelected' = FALSE
  /\ message' = MSG_SelectFile
  /\ excelData' = <<>>
  /\ filteredResults' = <<>>
  /\ fileInputValue' = <<>>
  /\ UNCHANGED <<searchTerm, isXLSXLoaded, script, readers, lastDone>>

\* UploadNotReady with setFileSelected(true) hoisted above the library test
UploadNotReady_MarksSelected ==
  /\ message' = MSG_StillLoading
  /\ fileInputValue' = <<>>
  /\ fileSelected' = TRUE
  /\ UNCHANGED <<excelData, searchTerm, filteredResults,
                 isXLSXLoaded, script, readers, lastDone>>

\* if (!isXLSXLoaded) { ... return; }
UploadNotReady ==
  /\ message' = MSG_StillLoading
  /\ fileInputValue' = <<>>
  /\ UNCHANGED <<excelData, searchTerm, filteredResults, fileSelected,
                 isXLSXLoaded, script, readers, lastDone>>

\* setFileSelected(true); new FileReader(); reader.readAs...(file)
UploadStartRead(file) ==
  /\ Len(readers) < MaxReads
  /\ fileSelected' = TRUE
  /\ fileInputValue' = file.name
  /\ readers' = Append(readers, NewReader(file))
  /\ UNCHANGED <<excelData, searchTerm, filteredResults, message,
                 isXLSXLoaded, script, lastDone>>

HandleFileUpload(files) ==
  /\ IF Len(files) = 0 THEN UploadNoFile
     ELSE IF ~isXLSXLoaded THEN UploadNotReady
     ELSE UploadStartRead(files[1])
  /\ lastEvent' = [op |-> "handleFileUpload", files |-> files, records |-> Len(excelData)]
  /\ afterReset' = FALSE

(***************************************************************************)
(* reader.onload: the read of reader i completes.                          *)
(***************************************************************************)
\* OnloadLoaded appending to the stored records instead of replacing them
OnloadLoaded_Merges(file, processedData) ==
  /\ message' = MSG_Loaded(Len(processedData), file.name)
  /\ excelData' = excelData \o processedData
  /\ filteredResults' = <<>>
  /\ UNCHANGED fileInputValue

\* if (processedData.length > 0) { ... }
OnloadLoaded(file, processedData) ==
  /\ message' = MSG_Loaded(Len(processedData), file.name)
  /\ excelData' = processedData
  /\ filteredResults' = <<>>
  /\ UNCHANGED fileInputValue

\* OnloadNoValidRows reporting the failure of the catch block
OnloadNoValidRows_AsParseError ==
  /\ excelData' = <<>>
  /\ message' = MSG_FailedToRead
  /\ fileInputValue' = <<>>
  /\ UNCHANGED filteredResults

\* OnloadNoValidRows without setExcelData([])
OnloadNoValidRows_KeepsData ==
  /\ message' = MSG_NoValidData
  /\ fileInputValue' = <<>>
  /\ UNCHANGED <<excelData, filteredResults>>

\* else { ... }
OnloadNoValidRows ==
  /\ excelData' = <<>>
  /\ message' = MSG_NoValidData
  /\ fileInputValue' = <<>>
  /\ UNCHANGED filteredResults

\* OnloadCatch without setExcelData([])
OnloadCatch_KeepsData ==
  /\ message' = MSG_FailedToRead
  /\ fileInputValue' = <<>>
  /\ UNCHANGED <<excelData, filteredResults>>

\* catch (error) { ... }
OnloadCatch ==
  /\ message' = MSG_FailedToRead
  /\ excelData' = <<>>
  /\ fileInputValue' = <<>>
  /\ UNCHANGED filteredResults

ReaderOnload(i) ==
  /\ i \in 1..Len(readers)
  /\ readers[i].readyState = "LOADING"
  /\ readers' = [readers EXCEPT ![i].readyState = "DONE"]
  /\ LET file == readers[i].file
     IN  IF file.throws THEN OnloadCatch
         ELSE LET processedData == ProcessedData(file.json)
              IN  IF Len(processedData) > 0
                  THEN OnloadLoaded(file, processedData)
                  ELSE OnloadNoValidRows
  /\ lastEvent' = [op |-> "reader.onload", reader |-> i, records |-> Len(excelData)]
  /\ lastDone' = i
  /\ UNCHANGED <<searchTerm, fileSelected, isXLSXLoaded, script, afterReset>>

\* the read of reader i fails: the reader has no onerror handler
ReaderOnerror(i) ==
  /\ i \in 1..Len(readers)
  /\ readers[i].readyState = "LOADING"
  /\ readers' = [readers EXCEPT ![i].readyState = "DONE", ![i].error = TRUE]
  /\ lastEvent' = [op |-> "reader.onerror", reader |-> i]
  /\ UNCHANGED <<appState, script, afterReset, lastDone>>

(***************************************************************************)
(* handleSearchChange, clearSearch, resetApp.                              *)
(***************************************************************************)
\* ScansRecords without the test of the term's length
ScansRecords_AnyTerm(term) == Len(excelData) > 0

\* if (term.length > 0 && excelData.length > 0)
ScansRecords(term) == Len(term) > 0 /\ Len(excelData) > 0

HandleSearchChange(term) ==
  /\ searchTerm' = term
  /\ IF ScansRecords(term)
     THEN LET results == UniqueResults(excelData, term)
          IN  /\ filteredResults' = results
              /\ message' = IF Len(results) = 0 THEN MSG_NoMatch ELSE MSG_None
     ELSE /\ filteredResults' = <<>>
          /\ message' = IF Len(excelData) > 0 THEN MSG_StartTyping
                        ELSE IF Len(term) > 0 THEN MSG_UploadFirst
                        ELSE MSG_None
  /\ lastEvent' = [op |-> "handleSearchChange", term |-> term]
  /\ UNCHANGED <<excelData, fileSelected, isXLSXLoaded, fileInputValue, script,
                 readers, afterReset, lastDone>>

ClearSearch ==
  /\ searchTerm' = <<>>
  /\ filteredResults' = <<>>
  /\ message' = IF Len(excelData) > 0 THEN MSG_SearchCleared ELSE MSG_UploadToStart
  /\ lastEvent' = [op |-> "clearSearch"]
  /\ UNCHANGED <<excelData, fileSelected, isXLSXLoaded, fileInputValue, script,
                 readers, afterReset, lastDone>>

\* ResetApp without setSearchTerm('') and setFilteredResults([])
ResetApp_KeepsQuery ==
  /\ excelData' = <<>>
  /\ message' = MSG_AppReset
  /\ fileSelected' = FALSE
  /\ fileInputValue' = <<>>
  /\ lastEvent' = [op |-> "resetApp", records |-> Len(excelData)]
  /\ afterReset' = TRUE
  /\ UNCHANGED <<searchTerm, filteredResults, isXLSXLoaded, script, readers, lastDone>>

ResetApp ==
  /\ excelData' = <<>>
  /\ searchTerm' = <<>>
  /\ filteredResults' = <<>>
  /\ message' = MSG_AppReset
  /\ fileSelected' = FALSE
  /\ fileInputValue' = <<>>
  /\ lastEvent' = [op |-> "resetApp", records |-> Len(excelData)]
  /\ afterReset' = TRUE
  /\ UNCHANGED <<isXLSXLoaded, script, readers, lastDone>>

(***************************************************************************)
(* What the component renders: an event reaches its handler only through   *)
(* an element that is rendered and enabled.                                *)
(***************************************************************************)
\* <input type="file" disabled={!isXLSXLoaded}>
FileInputEnabled == isXLSXLoaded

\* {excelData.length > 0 && (<div> ... <input type="text" onChange=...>)}
SearchBarRendered == Len(excelData) > 0

\* {searchTerm && (<button onClick={clearSearch}>)}, inside the search bar
ClearButtonRendered == SearchBarRendered /\ Len(searchTerm) > 0

\* {(excelData.length > 0 || fileSelected) && (<button onClick={resetApp}>)}
ResetButtonRendered == Len(excelData) > 0 \/ fileSelected

(***************************************************************************)
(* The component: the events its rendered elements, its FileReaders and    *)
(* the library's <script> deliver.                                         *)
(***************************************************************************)
Next ==
  \/ ScriptOnload
  \/ ScriptOnerror
  \/ \E files \in FileLists : FileInputEnabled /\ HandleFileUpload(files)
  \/ \E i \in 1..MaxReads : ReaderOnload(i)
  \/ \E i \in 1..MaxReads : ReaderOnerror(i)
  \/ \E term \in Terms : SearchBarRendered /\ HandleSearchChange(term)
  \/ ClearButtonRendered /\ ClearSearch
  \/ ResetButtonRendered /\ ResetApp

Spec == Init /\ [][Next]_vars

(***************************************************************************)
(* The handlers under any sequence of calls, rendered or not.              *)
(***************************************************************************)
HandlerNext ==
  \/ ScriptOnload
  \/ ScriptOnerror
  \/ \E files \in FileLists : HandleFileUpload(files)
  \/ \E i \in 1..MaxReads : ReaderOnload(i)
  \/ \E i \in 1..MaxReads : ReaderOnerror(i)
  \/ \E term \in Terms : HandleSearchChange(term)
  \/ ClearSearch
  \/ ResetApp

HandlerSpec == Init /\ [][HandlerNext]_vars

(***************************************************************************)
(* The engine on every sheet of at most MaxRows rows, with the library     *)
(* loaded: one upload per behaviour, its completion, and calls of the      *)
(* query before and after it.                                              *)
(***************************************************************************)
EngineInit == Init /\ isXLSXLoaded

EngineNext ==
  \/ \E file \in EngineFiles : readers = <<>> /\ HandleFileUpload(<<file>>)
  \/ ReaderOnload(1)
  \/ \E term \in EngineTerms : HandleSearchChange(term)

EngineSpec == EngineInit /\ [][EngineNext]_vars

(***************************************************************************)
(* HeaderSpec: the ingestion of one sheet of one row, over the headers of  *)
(* HeaderChoices in every column position, followed by queries.            *)
(***************************************************************************)
HeaderNext ==
  \/ \E file \in HeaderFiles : readers = <<>> /\ HandleFileUpload(<<file>>)
  \/ ReaderOnload(1)
  \/ \E term \in EngineTerms : SearchBarRendered /\ HandleSearchChange(term)

HeaderSpec == EngineInit /\ [][HeaderNext]_vars

(***************************************************************************)
(* Vocabulary of the properties.                                           *)
(***************************************************************************)
\* the last handler that ran was handleSearchChange, with a non-empty term
QueriedNonEmpty ==
  lastEvent.op = "handleSearchChange" /\ Len(lastEvent.term) > 0

\* the lowercased territory key of a value
LowerKey(v) == toLowerCase(String(v))

\* the positions of the records whose lowercased key contains the lowercased term
MatchingRecords(data, term) ==
  {k \in 1..Len(data) : includes(LowerKey(data[k][KEY_salesLevel6]), toLowerCase(term))}

\* record k is the first of data, in input order, with its lowercased key
FirstWithKey(data, k) ==
  \A m \in 1..(k - 1) :
    LowerKey(data[m][KEY_salesLevel6]) # LowerKey(data[k][KEY_salesLevel6])

\* the reader whose onload ran last, when the last handler was an onload
LoadedFile == readers[lastEvent.reader].file

(***************************************************************************)
(* C1: after a query with a non-empty term, no two results have the same   *)
(* lowercased territory key, and every result carries the territory key    *)
(* (original casing) and the owner name of the first record, in input      *)
(* order, that has its lowercased key.                                     *)
(***************************************************************************)
C1_FirstWins ==
  QueriedNonEmpty =>
    /\ \A i, j \in 1..Len(filteredResults) :
         i # j => LowerKey(filteredResults[i].salesLevel6)
                    # LowerKey(filteredResults[j].salesLevel6)
    /\ \A i \in 1..Len(filteredResults) :
         \E k \in 1..Len(excelData) :
           /\ FirstWithKey(excelData, k)
           /\ LowerKey(excelData[k][KEY_salesLevel6])
                = LowerKey(filteredResults[i].salesLevel6)
           /\ filteredResults[i].salesLevel6 = excelData[k][KEY_salesLevel6]
           /\ filteredResults[i].sdrName = excelData[k][KEY_sdrName]

\* a query whose term matches two records of one lowercased key and of
\* different owners, the later of which is ignored
C1_Witness ==
  /\ QueriedNonEmpty
  /\ Len(filteredResults) > 0
  /\ \E k, m \in MatchingRecords(excelData, lastEvent.term) :
       /\ k < m
       /\ LowerKey(excelData[k][KEY_salesLevel6]) = LowerKey(excelData[m][KEY_salesLevel6])
       /\ excelData[k][KEY_sdrName] # excelData[m][KEY_sdrName]

(***************************************************************************)
(* C2: after a query with a non-empty term, the results are empty exactly  *)
(* when no record's lowercased key contains the lowercased term, and there *)
(* are never more results than matching records.                           *)
(***************************************************************************)
C2_EmptyIffNoMatch ==
  QueriedNonEmpty =>
    /\ (filteredResults = <<>>) <=> (MatchingRecords(excelData, lastEvent.term) = {})
    /\ Len(filteredResults) <= Cardinality(MatchingRecords(excelData, lastEvent.term))

\* a query in upper case that matches records only up to case
C2_Witness ==
  /\ QueriedNonEmpty
  /\ lastEvent.term # toLowerCase(lastEvent.term)
  /\ Cardinality(MatchingRecords(excelData, lastEvent.term)) > Len(filteredResults)
  /\ Len(filteredResults) > 1

(***************************************************************************)
(* C3: a query with the empty string leaves the results empty whatever the *)
(* record set holds, and a query that matches no key leaves them empty and *)
(* reports "no match", not a failure.                                      *)
(***************************************************************************)
C3_EmptyQueryEmptyResult ==
  lastEvent.op = "handleSearchChange" =>
    /\ lastEvent.term = <<>> =>
         /\ filteredResults = <<>>
         /\ message = IF Len(excelData) > 0 THEN MSG_StartTyping ELSE MSG_None
    /\ (lastEvent.term # <<>> /\ MatchingRecords(excelData, lastEvent.term) = {}) =>
         /\ filteredResults = <<>>
         /\ message = IF Len(excelData) > 0 THEN MSG_NoMatch ELSE MSG_UploadFirst

\* the empty query against a loaded record set
C3_Witness ==
  /\ lastEvent.op = "handleSearchChange"
  /\ lastEvent.term = <<>>
  /\ Len(excelData) > 1
  /\ filteredResults = <<>>

(***************************************************************************)
(* C4: every record of excelData has a truthy territory key and a truthy   *)
(* owner name, in every reachable state; and when an onload has parsed a   *)
(* sheet, excelData is the projected rows with both fields truthy, in      *)
(* input order and none else, so no longer than the sheet.                 *)
(***************************************************************************)
\* the positions of the rows of json whose projection has both fields truthy
ValidRows(json) ==
  {i \in 1..Len(json) :
     /\ Truthy(GetProperty(ProjectRow(json[i]), KEY_salesLevel6))
     /\ Truthy(GetProperty(ProjectRow(json[i]), KEY_sdrName))}

\* the j-th smallest element of a set of positions
NthOf(S, j) == CHOOSE i \in S : Cardinality({m \in S : m < i}) = j - 1

\* C4: stored records have both fields truthy; an onload stores exactly the
\* valid rows' projections, in input order
C4_ProjectionInvariant ==
  /\ \A k \in 1..Len(excelData) :
       /\ Truthy(GetProperty(excelData[k], KEY_salesLevel6))
       /\ Truthy(GetProperty(excelData[k], KEY_sdrName))
  /\ (lastEvent.op = "reader.onload" /\ ~LoadedFile.throws) =>
       LET json == LoadedFile.json
       IN  /\ Len(excelData) = Cardinality(ValidRows(json))
           /\ \A j \in 1..Len(excelData) :
                excelData[j] = ProjectRow(json[NthOf(ValidRows(json), j)])
           /\ Len(excelData) <= Len(json)

\* a sheet whose first row is dropped and whose later rows are kept
C4_Witness ==
  /\ lastEvent.op = "reader.onload"
  /\ ~LoadedFile.throws
  /\ 1 \notin ValidRows(LoadedFile.json)
  /\ Len(excelData) > 1
  /\ Len(excelData) < Len(LoadedFile.json)

(***************************************************************************)
(* Vocabulary of the properties of the ingestion.                          *)
(***************************************************************************)
\* the projected set of a sheet: the projections of its valid rows, in order
ProjectedSet(json) ==
  [j \in 1..Cardinality(ValidRows(json)) |-> ProjectRow(json[NthOf(ValidRows(json), j)])]

\* the record set an attempt ends with: its projected set, or none when the
\* parser throws
Outcome(file) == IF file.throws THEN <<>> ELSE ProjectedSet(file.json)

\* no header of the sheet contains 'sales level 6' or 'sdr'
NoRequiredHeader(json) ==
  \A i \in 1..Len(json) : \A p \in 1..Len(json[i]) :
    /\ ~includes(toLowerCase(trim(json[i][p][1])), NEEDLE_salesLevel6)
    /\ ~includes(toLowerCase(trim(json[i][p][1])), NEEDLE_sdr)

InFlight == {i \in 1..Len(readers) : readers[i].readyState = "LOADING"}

\* the reads that ended with a load event
Loaded == {i \in 1..Len(readers) : readers[i].readyState = "DONE" /\ ~readers[i].error}

(***************************************************************************)
(* C5: when a read completes and the parser does not throw, the attempt    *)
(* ends Loaded (the success message, excelData the whole projected set)    *)
(* if that set is non-empty, and NoValidRows (its message, excelData       *)
(* empty) otherwise; a sheet with no matching header ends NoValidRows,     *)
(* not ParseError.                                                         *)
(***************************************************************************)
C5_ParsedOutcome ==
  (lastEvent.op = "reader.onload" /\ ~LoadedFile.throws) =>
    LET projected == ProjectedSet(LoadedFile.json)
    IN  /\ IF Len(projected) > 0
           THEN /\ message = MSG_Loaded(Len(projected), LoadedFile.name)
                /\ excelData = projected
           ELSE /\ message = MSG_NoValidData
                /\ excelData = <<>>
        /\ NoRequiredHeader(LoadedFile.json) =>
             message = MSG_NoValidData /\ message # MSG_FailedToRead

\* a sheet with rows but no matching header, read after a successful load
C5_Witness ==
  /\ lastEvent.op = "reader.onload"
  /\ ~LoadedFile.throws
  /\ Len(LoadedFile.json) > 0
  /\ NoRequiredHeader(LoadedFile.json)
  /\ lastEvent.records > 0
  /\ message = MSG_NoValidData

(***************************************************************************)
(* C6: when the parser throws in a completing read, the attempt ends       *)
(* ParseError and excelData is empty afterwards, whatever it held.         *)
(***************************************************************************)
C6_ParseErrorKeepsNothing ==
  (lastEvent.op = "reader.onload" /\ LoadedFile.throws) =>
    /\ message = MSG_FailedToRead
    /\ excelData = <<>>

\* the parser throws while the records of an earlier attempt are stored
C6_Witness ==
  /\ lastEvent.op = "reader.onload"
  /\ LoadedFile.throws
  /\ lastEvent.records > 0
  /\ excelData = <<>>

(***************************************************************************)
(* C7: right after resetApp the record set, the query string and the       *)
(* displayed results are empty, the selected-file indicator is false and   *)
(* the message is the reset message, whatever the state before.            *)
(***************************************************************************)
C7_ResetToIdle ==
  lastEvent.op = "resetApp" =>
    /\ excelData = <<>>
    /\ searchTerm = <<>>
    /\ filteredResults = <<>>
    /\ fileSelected = FALSE
    /\ fileInputValue = <<>>
    /\ message = MSG_AppReset

\* a reset of a loaded component while another read is in flight
C7_Witness ==
  /\ lastEvent.op = "resetApp"
  /\ lastEvent.records > 0
  /\ InFlight # {}
  /\ excelData = <<>>

(***************************************************************************)
(* C8: from a resetApp until the next change event of the file input, the  *)
(* record set stays empty, the selected-file indicator stays false and a   *)
(* query leaves the results empty, also when a read started before the     *)
(* reset completes after it.                                               *)
(***************************************************************************)
\* C8: while afterReset holds, excelData is empty, fileSelected is false and a
\* query has left no results
C8_IdleUntilNextUpload ==
  afterReset =>
    /\ excelData = <<>>
    /\ fileSelected = FALSE
    /\ lastEvent.op = "handleSearchChange" => filteredResults = <<>>

(***************************************************************************)
(* C9: each completion replaces the record set by the outcome of its own   *)
(* attempt (the projected set, or nothing when the parser throws), so once *)
(* overlapping reads have all completed the record set is the outcome of   *)
(* the attempt that completed last, not a merge.                           *)
(***************************************************************************)
C9_LastCompletionWins ==
  lastEvent.op = "reader.onload" => excelData = Outcome(LoadedFile)

\* two overlapping reads of different non-empty sheets, the one started first
\* completing last, over the records of the other
C9_Witness ==
  /\ lastEvent.op = "reader.onload"
  /\ lastEvent.reader = 1
  /\ lastEvent.records > 0
  /\ InFlight = {}
  /\ Loaded = {1, 2}
  /\ Outcome(readers[2].file) # <<>>
  /\ Outcome(readers[1].file) # Outcome(readers[2].file)
  /\ excelData = Outcome(readers[1].file)
  /\ excelData # <<>>

(***************************************************************************)
(* C10: every query is evaluated against the record set of the most        *)
(* recently completed ingestion, whole: a read in flight changes nothing   *)
(* of what a query sees, and no query sees a mix of two attempts.          *)
(***************************************************************************)
\* the record set of the most recently completed ingestion
Ingested == IF lastDone = 0 THEN <<>> ELSE Outcome(readers[lastDone].file)

\* C10: a non-empty query finds excelData equal to the outcome of the attempt
\* whose onload ran last, and its results are the query of that set
C10_QueryAgainstLastIngestion ==
  QueriedNonEmpty =>
    /\ excelData = Ingested
    /\ filteredResults = UniqueResults(Ingested, lastEvent.term)

\* a query that finds the records of the completed ingestion while the read
\* of another sheet is in flight
C10_Witness ==
  /\ QueriedNonEmpty
  /\ lastDone # 0
  /\ \E i \in InFlight : Outcome(readers[i].file) \notin {<<>>, Ingested}
  /\ Len(filteredResults) > 0

(***************************************************************************)
(* C11: a change event of the file input that carries no file leaves the   *)
(* stored record set and the displayed results unchanged.                  *)
(***************************************************************************)
C11_NoFileIsNoOp ==
  [][HandleFileUpload(<<>>) =>
       /\ excelData' = excelData
       /\ filteredResults' = filteredResults]_vars

\* C11 as amended: a change event that carries no file starts no read and
\* leaves the query string, the library and the reads in flight unchanged,
\* but it empties the stored record set and the displayed results and sets
\* the selected-file indicator to false.
C11_NoFileClears ==
  [][HandleFileUpload(<<>>) =>
       /\ excelData' = <<>>
       /\ filteredResults' = <<>>
       /\ fileSelected' = FALSE
       /\ message' = MSG_SelectFile
       /\ UNCHANGED <<searchTerm, isXLSXLoaded, readers>>]_vars

\* an empty selection made while records were stored and a read was in flight
C11_Witness ==
  /\ lastEvent.op = "handleFileUpload"
  /\ lastEvent.files = <<>>
  /\ lastEvent.records > 0
  /\ InFlight # {}
  /\ excelData = <<>>

(***************************************************************************)
(* C12: a selection that arrives while the parsing library is not ready is *)
(* rejected: no read is started and the record set, the query string, the  *)
(* displayed results and the selected-file indicator are unchanged; the    *)
(* same selection made once the library is ready starts a read.            *)
(***************************************************************************)
C12_RejectedUntilReady ==
  [][\A file \in Files :
       HandleFileUpload(<<file>>) =>
         IF isXLSXLoaded
           THEN /\ readers' = Append(readers, NewReader(file))
                /\ fileSelected' = TRUE
           ELSE /\ UNCHANGED <<excelData, searchTerm, filteredResults,
                               fileSelected, readers>>
                /\ message' = MSG_StillLoading]_vars

\* a selection rejected while a query string was typed
C12_Witness ==
  /\ lastEvent.op = "handleFileUpload"
  /\ Len(lastEvent.files) = 1
  /\ ~isXLSXLoaded
  /\ message = MSG_StillLoading
  /\ searchTerm # <<>>
  /\ readers = <<>>
  /\ ~fileSelected

(***************************************************************************)
(* C13: every read that was started ends in an outcome: when the read of   *)
(* an attempt has finished, with a load event or with an error event, the  *)
(* attempt has reported Loaded or Failed (NoValidRows or ParseError).      *)
(***************************************************************************)
C13_EveryReadEndsInOutcome ==
  lastEvent.op \in {"reader.onload", "reader.onerror"} =>
    LET reader == readers[lastEvent.reader]
    IN  /\ reader.readyState = "DONE"
        /\ \/ message = MSG_Loaded(Len(excelData), reader.file.name)
           \/ message = MSG_NoValidData
           \/ message = MSG_FailedToRead

(***************************************************************************)
(* Vocabulary of the properties of the header normalization.               *)
(***************************************************************************)
\* the tag of a header: territoryKey when its trimmed, lowercased form holds
\* 'sales level 6', else ownerName when it holds 'sdr', else passthrough
Tag(header) ==
  IF includes(toLowerCase(trim(header)), NEEDLE_salesLevel6) THEN "territoryKey"
  ELSE IF includes(toLowerCase(trim(header)), NEEDLE_sdr) THEN "ownerName"
  ELSE "passthrough"

\* the field a header of that tag is stored under
FieldOf(header) ==
  CASE Tag(header) = "territoryKey" -> KEY_salesLevel6
    [] Tag(header) = "ownerName" -> KEY_sdrName
    [] OTHER -> toLowerCase(trim(header))

\* the parsed row the j-th stored record comes from, after an onload
SourceRow(j) == LoadedFile.json[NthOf(ValidRows(LoadedFile.json), j)]

\* the columns of a parsed row whose header has the field of column p
SameField(row, p) ==
  {q \in 1..Len(row) : FieldOf(row[q][1]) = FieldOf(row[p][1])}

(***************************************************************************)
(* C14: a header is tagged territoryKey when its trimmed, lowercased form  *)
(* contains 'sales level 6', otherwise ownerName when it contains 'sdr',   *)
(* otherwise passthrough under its trimmed, lowercased form; so a stored   *)
(* record has exactly the fields of its row's headers, each holding the    *)
(* cell of the last column of that field, and a header with both           *)
(* substrings stores its cell as the territory key.                        *)
(***************************************************************************)
C14_HeaderTags ==
  (lastEvent.op = "reader.onload" /\ ~LoadedFile.throws) =>
    \A j \in 1..Len(excelData) :
      LET row == SourceRow(j)
      IN  /\ DOMAIN excelData[j] = {FieldOf(row[p][1]) : p \in 1..Len(row)}
          /\ \A p \in 1..Len(row) :
               (\A q \in SameField(row, p) : q <= p) =>
                 excelData[j][FieldOf(row[p][1])] = row[p][2]

\* a row whose only territory column has a header with both substrings
C14_Witness ==
  /\ lastEvent.op = "reader.onload"
  /\ Len(excelData) = 1
  /\ \E p \in 1..Len(SourceRow(1)) :
       /\ SourceRow(1)[p][1] = H_Both
       /\ SameField(SourceRow(1), p) = {p}
       /\ excelData[1][KEY_salesLevel6] = SourceRow(1)[p][2]

(***************************************************************************)
(* C15: normalizing the key that the normalization produced for a header   *)
(* yields that key again, for every header of a parsed sheet; so a row     *)
(* that already has the fields salesLevel6 and sdrName is kept as it is.   *)
(***************************************************************************)
\* a parsed row whose headers are the two fields of a projected row, truthy
IsCanonical(row) ==
  /\ {row[p][1] : p \in 1..Len(row)} = {KEY_salesLevel6, KEY_sdrName}
  /\ \A p \in 1..Len(row) : Truthy(row[p][2])

\* C15: the produced key is a fixed point of the normalization, and a row of
\* the two produced fields is stored unchanged
C15_Idempotent ==
  (lastEvent.op = "reader.onload" /\ ~LoadedFile.throws) =>
    LET json == LoadedFile.json
    IN  \A i \in 1..Len(json) :
          /\ \A p \in 1..Len(json[i]) :
               TargetKey(TargetKey(json[i][p][1])) = TargetKey(json[i][p][1])
          /\ IsCanonical(json[i]) =>
               \E j \in 1..Len(excelData) :
                 \A p \in 1..Len(json[i]) :
                   GetProperty(excelData[j], json[i][p][1]) = json[i][p][2]

\* C15 as amended: the produced key is a fixed point for owner and
\* passthrough headers; for a territory header the produced key salesLevel6
\* normalizes to the passthrough key 'saleslevel6', so no stored record keeps
\* its territory key under a second projection, and a sheet of rows that
\* already have the two fields ends NoValidRows.
C15_IdempotentButTerritory ==
  (lastEvent.op = "reader.onload" /\ ~LoadedFile.throws) =>
    LET json == LoadedFile.json
    IN  /\ \A i \in 1..Len(json) : \A p \in 1..Len(json[i]) :
             LET key == TargetKey(json[i][p][1])
             IN  IF Tag(json[i][p][1]) = "territoryKey"
                   THEN /\ TargetKey(key) = toLowerCase(KEY_salesLevel6)
                        /\ TargetKey(key) # key
                   ELSE TargetKey(key) = key
        /\ \A j \in 1..Len(excelData) :
             KEY_salesLevel6 \notin {TargetKey(k) : k \in DOMAIN excelData[j]}
        /\ (json # <<>> /\ \A i \in 1..Len(json) : IsCanonical(json[i])) =>
             /\ excelData = <<>>
             /\ message = MSG_NoValidData

\* a sheet of one row that already has the two fields, dropped
C15_Witness ==
  /\ lastEvent.op = "reader.onload"
  /\ LoadedFile.json = <<RowCanonical>>
  /\ IsCanonical(LoadedFile.json[1])
  /\ excelData = <<>>
  /\ message = MSG_NoValidData

(***************************************************************************)
(* C16: the results of a non-empty query are one per distinct lowercased   *)
(* key of the matching records, in the order in which those keys first     *)
(* occur among the matching records.                                       *)
(***************************************************************************)
\* the first matching record that has the lowercased key of result i
FirstOccurrence(i) ==
  LET M == MatchingRecords(excelData, lastEvent.term)
      K == {k \in M : LowerKey(excelData[k][KEY_salesLevel6])
                        = LowerKey(filteredResults[i].salesLevel6)}
  IN  CHOOSE k \in K : \A m \in K : k <= m

\* C16: as many results as distinct matching keys, each the key of a matching
\* record, ordered as their first occurrences
C16_FirstOccurrenceOrder ==
  QueriedNonEmpty =>
    LET M == MatchingRecords(excelData, lastEvent.term)
    IN  /\ Len(filteredResults)
             = Cardinality({LowerKey(excelData[k][KEY_salesLevel6]) : k \in M})
        /\ \A i \in 1..Len(filteredResults) :
             \E k \in M : LowerKey(excelData[k][KEY_salesLevel6])
                            = LowerKey(filteredResults[i].salesLevel6)
        /\ \A i, j \in 1..Len(filteredResults) :
             i < j => FirstOccurrence(i) < FirstOccurrence(j)

\* two results, the key of the first occurring again after the key of the
\* second
C16_Witness ==
  /\ QueriedNonEmpty
  /\ Len(filteredResults) = 2
  /\ \E k, m, n \in MatchingRecords(excelData, lastEvent.term) :
       /\ k < m /\ m < n
       /\ LowerKey(excelData[k][KEY_salesLevel6]) = LowerKey(excelData[n][KEY_salesLevel6])
       /\ LowerKey(excelData[k][KEY_salesLevel6]) # LowerKey(excelData[m][KEY_salesLevel6])
       /\ filteredResults[1].salesLevel6 = excelData[k][KEY_salesLevel6]
       /\ filteredResults[2].salesLevel6 = excelData[m][KEY_salesLevel6]

(***************************************************************************)
(* C17: every stored record holds its territory key and its owner name as  *)
(* strings, also when the parsed cell is a number.                         *)
(***************************************************************************)
C17_StoredAsStrings ==
  \A k \in 1..Len(excelData) :
    /\ excelData[k][KEY_salesLevel6].kind = "string"
    /\ excelData[k][KEY_sdrName].kind = "string"

\* C17 as amended: every stored record holds its territory key and its owner
\* name as the parsed cells themselves, of the same type and casing, so a
\* numeric cell stays a number; the key is turned into a string only where a
\* query compares it, and a result carries the stored value.
C17_StoredAsParsed ==
  /\ (lastEvent.op = "reader.onload" /\ ~LoadedFile.throws) =>
       \A j \in 1..Len(excelData) :
         LET row == SourceRow(j)
         IN  \A field \in {KEY_salesLevel6, KEY_sdrName} :
               \E p \in 1..Len(row) :
                 /\ FieldOf(row[p][1]) = field
                 /\ excelData[j][field] = row[p][2]
                 /\ excelData[j][field].kind = row[p][2].kind
  /\ QueriedNonEmpty =>
       \A i \in 1..Len(filteredResults) :
         \E k \in MatchingRecords(excelData, lastEvent.term) :
           /\ filteredResults[i].salesLevel6 = excelData[k][KEY_salesLevel6]
           /\ includes(toLowerCase(String(excelData[k][KEY_salesLevel6])),
                       toLowerCase(lastEvent.term))

\* a sheet with a numeric territory cell, stored as a number
C17_Witness ==
  /\ lastEvent.op = "reader.onload"
  /\ \E j \in 1..Len(excelData) :
       LET row == SourceRow(j)
       IN  /\ excelData[j][KEY_salesLevel6].kind = "number"
           /\ \E p \in 1..Len(row) : row[p][2] = excelData[j][KEY_salesLevel6]

(***************************************************************************)
(* C18: in every reachable state every displayed result is the territory   *)
(* key and the owner name of some record of the current record set; so no  *)
(* result is displayed while the record set is empty, also after an upload *)
(* that ends NoValidRows or ParseError after a load and a query.           *)
(***************************************************************************)
C18_ResultsFromRecords ==
  \A i \in 1..Len(filteredResults) :
    \E k \in 1..Len(excelData) :
      /\ filteredResults[i].salesLevel6 = excelData[k][KEY_salesLevel6]
      /\ filteredResults[i].sdrName = excelData[k][KEY_sdrName]

(***************************************************************************)
(* C19: when several headers of one row have the same canonical tag, the   *)
(* stored record holds one value for that tag, the cell of the last such   *)
(* header in column order; the cells of the earlier ones are stored under  *)
(* no field.                                                               *)
(***************************************************************************)
\* the columns of a parsed row whose header has the given tag
Tagged(row, tag) == {p \in 1..Len(row) : Tag(row[p][1]) = tag}

\* the last column of a non-empty set of columns
LastOf(P) == CHOOSE p \in P : \A q \in P : q <= p

\* the field a canonical tag is stored under
CanonicalField(tag) == IF tag = "territoryKey" THEN KEY_salesLevel6 ELSE KEY_sdrName

\* C19: of several columns of one canonical tag the last one's cell is stored,
\* the record has fewer fields than the row has columns, and the earlier
\* cells are the value of no field
C19_LastHeaderWins ==
  (lastEvent.op = "reader.onload" /\ ~LoadedFile.throws) =>
    \A j \in 1..Len(excelData) :
      \A tag \in {"territoryKey", "ownerName"} :
        LET row == SourceRow(j)
            P == Tagged(row, tag)
        IN  Cardinality(P) > 1 =>
              /\ excelData[j][CanonicalField(tag)] = row[LastOf(P)][2]
              /\ Cardinality(DOMAIN excelData[j]) < Len(row)
              /\ \A p \in P \ {LastOf(P)} :
                   \A k \in DOMAIN excelData[j] :
                     excelData[j][k] = row[p][2] =>
                       \E q \in 1..Len(row) :
                         /\ row[q][2] = row[p][2]
                         /\ \A r \in SameField(row, q) : r <= q

\* a row with two owner headers of different cells, the second one stored
C19_Witness ==
  /\ lastEvent.op = "reader.onload"
  /\ Len(excelData) = 1
  /\ \E p, q \in Tagged(SourceRow(1), "ownerName") :
       /\ p < q
       /\ SourceRow(1)[p][2] # SourceRow(1)[q][2]
       /\ excelData[1][KEY_sdrName] = SourceRow(1)[q][2]
       /\ \A k \in DOMAIN excelData[1] : excelData[1][k] # SourceRow(1)[p][2]

=============================================================================
